---------------------------- MODULE Spec2Model ----------------------------
(***************************************************************************)
(* Model of the gavel applicant-review application: the per-judge          *)
(* assignment state machine of gavel/controllers/judge.py (index, begin,   *)
(* vote), the admin actions of gavel/controllers/admin.py that change the  *)
(* state the judge side reads, and the pairwise belief update.             *)
(*                                                                         *)
(* gavel/crowd_bt.py and gavel/models/__init__.py (with_retries, db) are   *)
(* not part of the sources at hand; the definitions standing for them are  *)
(* written from the specification and say so.                              *)
(***************************************************************************)
EXTENDS Integers, Sequences, FiniteSets, TLC

(***************************************************************************)
(* Bounds of the model.                                                    *)
(*   MaxActs      form submissions (begin, vote) accepted in a run         *)
(*   MaxEvents    admin requests served plus minutes passed in a run       *)
(*   MaxActsConc  the same as MaxActs, in the runs with requests in flight *)
(*   NumSlots     requests that can be in flight at once                   *)
(***************************************************************************)
NumItems == 3
NumJudges == 2
MaxActs == 3
MaxEvents == 1
MaxActsConc == 4
MaxActsDelete == 3
MaxActsAdmin == 2
MaxActsAging == 2
MaxNow == 4
NumSlots == 2

Items == 1..NumItems
Judges == 1..NumJudges
Slots == 1..NumSlots

\* Python's None for Annotator.next / prev / updated.  Ids start at 1.
None == 0

(***************************************************************************)
(* Configuration (gavel/settings.py, gavel/crowd_bt.py; environment).      *)
(* Beliefs are fixed-point integers.                                       *)
(***************************************************************************)
TIMEOUT == 1
MIN_VIEWS == 1
MIN_JUDGE_ROLE == 2
MIN_ADMIN_ROLE == 4
MU_PRIOR == 0
SIGMA_SQ_PRIOR == 8
ALPHA_PRIOR == 10
BETA_PRIOR == 1
KAPPA == 1

VARIABLES
    active,       \* Applicant.active
    prioritized,  \* Applicant.prioritized
    viewed,       \* Applicant.viewed: rows of applicant_view per annotator
    mu,           \* Applicant.mu
    sigma_sq,     \* Applicant.sigma_sq
    ann_active,   \* Annotator.active
    next,         \* Annotator.next (id or None)
    prev,         \* Annotator.prev (id or None)
    updated,      \* Annotator.updated (time or None)
    ignore,       \* Annotator.ignore: rows of the ignore table per applicant
    alpha,        \* Annotator.alpha
    beta,         \* Annotator.beta
    decisions,    \* the Decision table, in commit order
    closed,       \* Setting 'closed'
    now,          \* datetime.utcnow(), in minutes since the start (from 1)
    adminOps,     \* number of admin requests served so far
    resp,         \* the response to the request served last
    inflight      \* the requests whose transaction is in flight

items == <<active, prioritized, viewed, mu, sigma_sq>>
annotators == <<ann_active, next, prev, updated, ignore, alpha, beta>>
db == <<items, annotators, decisions, closed>>
vars == <<db, now, adminOps, resp, inflight>>

Max(a, b) == IF a >= b THEN a ELSE b

(***************************************************************************)
(* A many-to-many relationship list (secondary table without a key): the   *)
(* number of rows per target.  append adds a row.                          *)
(***************************************************************************)
append(rel, x) == [rel EXCEPT ![x] = @ + 1]
ids(rel) == {x \in DOMAIN rel : rel[x] > 0}

RECURSIVE SumOver(_, _)
SumOver(f, S) ==
    IF S = {} THEN 0
    ELSE LET x == CHOOSE y \in S : TRUE IN f[x] + SumOver(f, S \ {x})

\* len(a.viewed)
len_viewed(i) == SumOver(viewed[i], Judges)

(***************************************************************************)
(* crowd_bt.update, from its contract: one joint update of the judge's     *)
(* reliability belief and both items' skill beliefs.  The judge's alpha    *)
(* grows when the outcome agrees with the current order of the means and   *)
(* beta when it does not; the means move apart by an amount growing with   *)
(* the variance; the variances shrink and are clamped below by KAPPA.      *)
(***************************************************************************)
update(al, be, mu_winner, sigma_sq_winner, mu_loser, sigma_sq_loser) ==
    LET agrees == mu_winner >= mu_loser
        step_w == Max(1, sigma_sq_winner \div 2)
        step_l == Max(1, sigma_sq_loser \div 2)
    IN  [alpha |-> IF agrees THEN al + 1 ELSE al,
         beta |-> IF agrees THEN be ELSE be + 1,
         mu_winner |-> mu_winner + (IF agrees THEN step_w ELSE 2 * step_w),
         sigma_sq_winner |-> Max(KAPPA, sigma_sq_winner - (sigma_sq_winner \div 4)),
         mu_loser |-> mu_loser - (IF agrees THEN step_l ELSE 2 * step_l),
         sigma_sq_loser |-> Max(KAPPA, sigma_sq_loser - (sigma_sq_loser \div 4))]

(***************************************************************************)
(* crowd_bt.expected_information_gain, from its contract: the two          *)
(* outcomes (reference wins / candidate wins), each weighted by its odds   *)
(* under the current means, scored by the reduction in variance and the    *)
(* change in the reliability belief the update would produce.              *)
(***************************************************************************)
expected_information_gain(al, be, mu_a, sigma_sq_a, mu_b, sigma_sq_b) ==
    LET a_wins == update(al, be, mu_a, sigma_sq_a, mu_b, sigma_sq_b)
        b_wins == update(al, be, mu_b, sigma_sq_b, mu_a, sigma_sq_a)
        reduction(u) == (sigma_sq_a + sigma_sq_b)
                        - (u.sigma_sq_winner + u.sigma_sq_loser)
                        + (u.beta - be)
        w_a == IF mu_a > mu_b THEN 2 ELSE 1
        w_b == IF mu_b > mu_a THEN 2 ELSE 1
    IN  w_a * reduction(a_wins) + w_b * reduction(b_wins)


(***************************************************************************)
(* numpy.random.shuffle: every order of the list is a possible outcome.    *)
(***************************************************************************)
shuffle(S) ==
    {p \in [1..Cardinality(S) -> S] : \A a, b \in 1..Cardinality(S) : p[a] = p[b] => a = b}

(***************************************************************************)
(* crowd_bt.argmax: the first element of xs with the largest f (f as the    *)
(* function of its values on xs).                                          *)
(***************************************************************************)
argmax(f, xs) ==
    LET best == CHOOSE k \in 1..Len(xs) :
                    /\ \A m \in 1..Len(xs) : f[xs[m]] <= f[xs[k]]
                    /\ \A m \in 1..(k - 1) : f[xs[m]] < f[xs[k]]
    IN  xs[best]

(***************************************************************************)
(* preferred_applicants(annotator).  ignored is annotator.ignore as the    *)
(* transaction has it when it calls (the row it appended included); the    *)
(* queries see the rest of the database as it is.                          *)
(***************************************************************************)
\* available_applicants without the filter on the ignored ids.
available_applicants_unfiltered(ignored) ==
    {a \in Items : active[a]}

available_applicants(ignored) ==
    {a \in Items : active[a] /\ a \notin ids(ignored)}

prioritized_applicants(ignored) ==
    {a \in available_applicants(ignored) : prioritized[a]}

\* applicants without the restriction to the prioritized ones.
applicants_of_unrestricted(ignored) ==
    available_applicants(ignored)

applicants_of(ignored) ==
    IF prioritized_applicants(ignored) # {}
    THEN prioritized_applicants(ignored)
    ELSE available_applicants(ignored)

\* Annotator.query.filter(active & next != None & updated != None)
assigned_annotators ==
    {a \in Judges : ann_active[a] /\ next[a] # None /\ updated[a] # None}

\* The comparison with TIMEOUT the wrong way round.
is_fresh_reversed(a) == now - updated[a] >= TIMEOUT

is_fresh(a) == now - updated[a] < TIMEOUT

busy == {next[a] : a \in {b \in assigned_annotators : is_fresh(b)}}

\* nonbusy taken from all the available applicants, not from the
\* prioritized ones.
nonbusy_of_available(ignored) ==
    {a \in available_applicants(ignored) : a \notin busy}

nonbusy(ignored) == {a \in applicants_of(ignored) : a \notin busy}

\* preferred without the fall-back to applicants.
preferred_no_fallback(ignored) ==
    nonbusy(ignored)

preferred(ignored) ==
    IF nonbusy(ignored) # {} THEN nonbusy(ignored) ELSE applicants_of(ignored)

\* less_seen with <= for <.
less_seen_inclusive(ignored) ==
    {a \in preferred(ignored) : len_viewed(a) <= MIN_VIEWS}

less_seen(ignored) == {a \in preferred(ignored) : len_viewed(a) < MIN_VIEWS}

preferred_applicants(ignored) ==
    IF less_seen(ignored) # {} THEN less_seen(ignored) ELSE preferred(ignored)


(***************************************************************************)
(* choose_next(annotator), after the shuffle gave xs and random() gave     *)
(* explore = (random() < EPSILON).  al, be, m, s are the beliefs as the    *)
(* transaction has them, ref is annotator.prev.                            *)
(***************************************************************************)
\* choose_next that returns the first shuffled applicant whatever random()
\* gave.
choose_next_first(xs, explore, al, be, ref, m, s) ==
    IF Len(xs) > 0 THEN xs[1] ELSE None

choose_next(xs, explore, al, be, ref, m, s) ==
    IF Len(xs) > 0
    THEN IF explore
         THEN xs[1]
         ELSE LET gain == [a \in {xs[i] : i \in 1..Len(xs)} |->
                              expected_information_gain(al, be, m[ref], s[ref], m[a], s[a])]
              IN  argmax(gain, xs)
    ELSE None

\* What choose_next can return, over the outcomes of shuffle and random
\* (v holds the arguments, evaluated once).
next_choices(S, al, be, ref, m, s) ==
    UNION {{choose_next(xs, explore, v.al, v.be, ref, v.m, v.s) :
                xs \in shuffle(v.S), explore \in BOOLEAN} :
           v \in {[S |-> S, al |-> al, be |-> be, m |-> m, s |-> s]}}

(***************************************************************************)
(* perform_vote(annotator, next_won): the beliefs after the update.        *)
(***************************************************************************)
vote_winner(j, next_won) == IF next_won THEN next[j] ELSE prev[j]
vote_loser(j, next_won) == IF next_won THEN prev[j] ELSE next[j]

\* perform_vote that does not write the loser's belief back.
perform_vote_winner_only(j, next_won) ==
    LET winner == vote_winner(j, next_won)
        loser == vote_loser(j, next_won)
        u == update(alpha[j], beta[j], mu[winner], sigma_sq[winner],
                    mu[loser], sigma_sq[loser])
    IN  [alpha |-> [alpha EXCEPT ![j] = u.alpha],
         beta |-> [beta EXCEPT ![j] = u.beta],
         mu |-> [mu EXCEPT ![winner] = u.mu_winner],
         sigma_sq |-> [sigma_sq EXCEPT ![winner] = u.sigma_sq_winner]]

\* perform_vote that writes each item's updated variance to the other item.
perform_vote_sigma_sq_crossed(j, next_won) ==
    LET winner == vote_winner(j, next_won)
        loser == vote_loser(j, next_won)
        u == update(alpha[j], beta[j], mu[winner], sigma_sq[winner],
                    mu[loser], sigma_sq[loser])
    IN  [alpha |-> [alpha EXCEPT ![j] = u.alpha],
         beta |-> [beta EXCEPT ![j] = u.beta],
         mu |-> [mu EXCEPT ![winner] = u.mu_winner, ![loser] = u.mu_loser],
         sigma_sq |-> [sigma_sq EXCEPT ![winner] = u.sigma_sq_loser,
                                       ![loser] = u.sigma_sq_winner]]

\* perform_vote that writes the updated means into the variances.
perform_vote_mu_as_sigma_sq(j, next_won) ==
    LET winner == vote_winner(j, next_won)
        loser == vote_loser(j, next_won)
        u == update(alpha[j], beta[j], mu[winner], sigma_sq[winner],
                    mu[loser], sigma_sq[loser])
    IN  [alpha |-> [alpha EXCEPT ![j] = u.alpha],
         beta |-> [beta EXCEPT ![j] = u.beta],
         mu |-> [mu EXCEPT ![winner] = u.mu_winner, ![loser] = u.mu_loser],
         sigma_sq |-> [sigma_sq EXCEPT ![winner] = u.mu_winner,
                                       ![loser] = u.mu_loser]]

perform_vote(j, next_won) ==
    LET winner == vote_winner(j, next_won)
        loser == vote_loser(j, next_won)
        u == update(alpha[j], beta[j], mu[winner], sigma_sq[winner],
                    mu[loser], sigma_sq[loser])
    IN  [alpha |-> [alpha EXCEPT ![j] = u.alpha],
         beta |-> [beta EXCEPT ![j] = u.beta],
         mu |-> [mu EXCEPT ![winner] = u.mu_winner, ![loser] = u.mu_loser],
         sigma_sq |-> [sigma_sq EXCEPT ![winner] = u.sigma_sq_winner,
                                       ![loser] = u.sigma_sq_loser]]

\* Decision(annotator, winner, loser)
Decision(j, winner, loser) ==
    [annotator |-> j, winner |-> winner, loser |-> loser]

(***************************************************************************)
(* Annotator.update_next(new_next), on top of the prioritized column the   *)
(* transaction has.                                                        *)
(***************************************************************************)
\* update_next that leaves the prioritized flag of new_next alone.
update_next_keeps_prioritized(j, new_next) ==
    /\ prioritized' = prioritized
    /\ updated' = IF new_next # None THEN [updated EXCEPT ![j] = now] ELSE updated
    /\ next' = [next EXCEPT ![j] = new_next]

\* update_next that stamps updated also when new_next is None.
update_next_always_stamps(j, new_next) ==
    /\ prioritized' = IF new_next # None
                      THEN [prioritized EXCEPT ![new_next] = FALSE]
                      ELSE prioritized
    /\ updated' = [updated EXCEPT ![j] = now]
    /\ next' = [next EXCEPT ![j] = new_next]

update_next(j, new_next) ==
    /\ prioritized' = IF new_next # None
                      THEN [prioritized EXCEPT ![new_next] = FALSE]
                      ELSE prioritized
    /\ updated' = IF new_next # None THEN [updated EXCEPT ![j] = now] ELSE updated
    /\ next' = [next EXCEPT ![j] = new_next]

(***************************************************************************)
(* Requests and responses.                                                 *)
(***************************************************************************)
VoteActions == {"Previous", "Current", "Skip"}
BeginActions == {"Continue", "Skip"}

\* The privilege a Firebase session carries for this environment; NoSession
\* for a request without one (magic-link login).
NoSession == -1
Privileges == {NoSession, MIN_JUDGE_ROLE}

\* A response: a page or a redirect ("ok"), or an unhandled exception ("error").
Responses == {"ok", "error"}

(***************************************************************************)
(* vote.tx                                                                 *)
(***************************************************************************)
\* annotator.prev.id / annotator.next.id on None: AttributeError
vote_raises(j, prev_id, next_id) ==
    \/ prev[j] = None
    \/ prev[j] = prev_id /\ next[j] = None

\* The echo check on next_id alone.
vote_matches_next_only(j, prev_id, next_id) ==
    next[j] = next_id

\* No echo check: any vote of a judge that has a pair counts.
vote_matches_unchecked(j, prev_id, next_id) ==
    prev[j] # None /\ next[j] # None

vote_matches(j, prev_id, next_id) ==
    prev[j] = prev_id /\ next[j] = next_id

\* The activity check on next alone.
vote_counts_next_only(j) == active[next[j]]

\* "ignore things that were deactivated in the middle of judging"
vote_counts(j) == active[prev[j]] /\ active[next[j]]

\* The Decision with the roles as 'Current' records them, whatever the action.
vote_decision_next_wins(j, action) ==
    Decision(j, next[j], prev[j])

vote_decision(j, action) ==
    IF action = "Previous"
    THEN Decision(j, prev[j], next[j])
    ELSE Decision(j, next[j], prev[j])

\* vote.tx that treats Skip like a vote that does not count: the item is
\* marked viewed and becomes prev.
vote_tx_skip_advances(j, prev_id, next_id, action) ==
    IF vote_matches(j, prev_id, next_id)
    THEN LET counted == action # "Skip" /\ vote_counts(j)
             u == IF counted
                  THEN perform_vote(j, action = "Current")
                  ELSE [alpha |-> alpha, beta |-> beta, mu |-> mu, sigma_sq |-> sigma_sq]
             new_ignore == append(ignore[j], next[j])
         IN  /\ alpha' = u.alpha
             /\ beta' = u.beta
             /\ mu' = u.mu
             /\ sigma_sq' = u.sigma_sq
             /\ decisions' = IF counted
                             THEN Append(decisions, vote_decision(j, action))
                             ELSE decisions
             /\ viewed' = [viewed EXCEPT ![next[j]] = append(@, j)]
             /\ prev' = [prev EXCEPT ![j] = next[j]]
             /\ ignore' = [ignore EXCEPT ![j] = new_ignore]
             /\ \E new_next \in next_choices(preferred_applicants(new_ignore),
                                             u.alpha[j], u.beta[j], next[j],
                                             u.mu, u.sigma_sq) :
                    update_next(j, new_next)
             /\ UNCHANGED <<active, ann_active, closed>>
    ELSE UNCHANGED db

vote_tx(j, prev_id, next_id, action) ==
    IF vote_matches(j, prev_id, next_id)
    THEN LET skip == action = "Skip"
             counted == ~skip /\ vote_counts(j)
             u == IF counted
                  THEN perform_vote(j, action = "Current")
                  ELSE [alpha |-> alpha, beta |-> beta, mu |-> mu, sigma_sq |-> sigma_sq]
             new_prev == IF skip THEN prev[j] ELSE next[j]
             new_ignore == append(ignore[j], next[j])
         IN  /\ alpha' = u.alpha
             /\ beta' = u.beta
             /\ mu' = u.mu
             /\ sigma_sq' = u.sigma_sq
             /\ decisions' = IF counted
                             THEN Append(decisions, vote_decision(j, action))
                             ELSE decisions
             /\ viewed' = IF skip THEN viewed
                          ELSE [viewed EXCEPT ![next[j]] = append(@, j)]
             /\ prev' = [prev EXCEPT ![j] = new_prev]
             /\ ignore' = [ignore EXCEPT ![j] = new_ignore]
             /\ \E new_next \in next_choices(preferred_applicants(new_ignore),
                                             u.alpha[j], u.beta[j], new_prev,
                                             u.mu, u.sigma_sq) :
                    update_next(j, new_next)
             /\ UNCHANGED <<active, ann_active, closed>>
    ELSE UNCHANGED db

(***************************************************************************)
(* begin.tx                                                                *)
(***************************************************************************)
\* annotator.next.id on None: AttributeError
begin_raises(j) == next[j] = None

begin_matches(j, applicant_id) == next[j] = applicant_id

\* begin.tx committed after its first statement.
begin_tx_partial(j, applicant_id, action) ==
    IF begin_matches(j, applicant_id)
    THEN /\ ignore' = [ignore EXCEPT ![j] = append(ignore[j], next[j])]
         /\ UNCHANGED <<items, ann_active, next, prev, updated, alpha, beta,
                        decisions, closed>>
    ELSE UNCHANGED db

\* begin.tx that marks the applicant viewed on Skip and not on Continue.
begin_tx_views_on_skip(j, applicant_id, action) ==
    IF begin_matches(j, applicant_id)
    THEN LET new_ignore == append(ignore[j], next[j])
         IN  /\ ignore' = [ignore EXCEPT ![j] = new_ignore]
             /\ IF action = "Continue"
                THEN /\ prev' = [prev EXCEPT ![j] = next[j]]
                     /\ \E new_next \in next_choices(preferred_applicants(new_ignore),
                                                     alpha[j], beta[j], next[j],
                                                     mu, sigma_sq) :
                            update_next(j, new_next)
                     /\ UNCHANGED viewed
                ELSE /\ viewed' = [viewed EXCEPT ![next[j]] = append(@, j)]
                     /\ next' = [next EXCEPT ![j] = None]
                     /\ UNCHANGED <<prev, prioritized, updated>>
             /\ UNCHANGED <<active, mu, sigma_sq, ann_active, alpha, beta,
                            decisions, closed>>
    ELSE UNCHANGED db

\* begin.tx that adds the applicant to ignore on Continue only.
begin_tx_skip_not_ignored(j, applicant_id, action) ==
    IF begin_matches(j, applicant_id)
    THEN LET new_ignore == append(ignore[j], next[j])
         IN  /\ IF action = "Continue"
                THEN /\ ignore' = [ignore EXCEPT ![j] = new_ignore]
                     /\ viewed' = [viewed EXCEPT ![next[j]] = append(@, j)]
                     /\ prev' = [prev EXCEPT ![j] = next[j]]
                     /\ \E new_next \in next_choices(preferred_applicants(new_ignore),
                                                     alpha[j], beta[j], next[j],
                                                     mu, sigma_sq) :
                            update_next(j, new_next)
                ELSE /\ next' = [next EXCEPT ![j] = None]
                     /\ UNCHANGED <<ignore, viewed, prev, prioritized, updated>>
             /\ UNCHANGED <<active, mu, sigma_sq, ann_active, alpha, beta,
                            decisions, closed>>
    ELSE UNCHANGED db

begin_tx(j, applicant_id, action) ==
    IF begin_matches(j, applicant_id)
    THEN LET new_ignore == append(ignore[j], next[j])
         IN  /\ ignore' = [ignore EXCEPT ![j] = new_ignore]
             /\ IF action = "Continue"
                THEN /\ viewed' = [viewed EXCEPT ![next[j]] = append(@, j)]
                     /\ prev' = [prev EXCEPT ![j] = next[j]]
                     /\ \E new_next \in next_choices(preferred_applicants(new_ignore),
                                                     alpha[j], beta[j], next[j],
                                                     mu, sigma_sq) :
                            update_next(j, new_next)
                ELSE /\ next' = [next EXCEPT ![j] = None]
                     /\ UNCHANGED <<viewed, prev, prioritized, updated>>
             /\ UNCHANGED <<active, mu, sigma_sq, ann_active, alpha, beta,
                            decisions, closed>>
    ELSE UNCHANGED db

\* maybe_init_annotator.tx picking among all the available applicants.
maybe_init_tx_any_available(j) ==
    IF next[j] = None /\ available_applicants(ignore[j]) # {}
    THEN /\ \E a \in available_applicants(ignore[j]) : update_next(j, a)
         /\ UNCHANGED <<active, viewed, mu, sigma_sq, prev, ignore, alpha, beta,
                        decisions, closed>>
    ELSE UNCHANGED <<items, next, prev, updated, ignore, alpha, beta, decisions, closed>>

\* maybe_init_annotator.tx without the test of annotator.next.
maybe_init_tx_unguarded(j) ==
    IF preferred_applicants(ignore[j]) # {}
    THEN /\ \E a \in preferred_applicants(ignore[j]) : update_next(j, a)
         /\ UNCHANGED <<active, viewed, mu, sigma_sq, prev, ignore, alpha, beta,
                        decisions, closed>>
    ELSE UNCHANGED <<items, next, prev, updated, ignore, alpha, beta, decisions, closed>>

(***************************************************************************)
(* maybe_init_annotator.tx; numpy.random.choice picks any applicant.       *)
(* (annotator.active is left to the caller.)                               *)
(***************************************************************************)
maybe_init_tx(j) ==
    IF next[j] = None /\ preferred_applicants(ignore[j]) # {}
    THEN /\ \E a \in preferred_applicants(ignore[j]) : update_next(j, a)
         /\ UNCHANGED <<active, viewed, mu, sigma_sq, prev, ignore, alpha, beta,
                        decisions, closed>>
    ELSE UNCHANGED <<items, next, prev, updated, ignore, alpha, beta, decisions, closed>>

(***************************************************************************)
(* with_retries(tx), from its contract: tx runs on the state it read       *)
(* and commits unless another transaction committed a change in the        *)
(* meantime; then its result is discarded and it runs again on the state   *)
(* read afresh, at most MAX_RETRIES times more; after that the request     *)
(* fails.  A request in flight is a slot: stale says that a change was     *)
(* committed since its transaction read the state.                         *)
(***************************************************************************)
MAX_RETRIES == 1

IdleSlot ==
    [st |-> "idle", op |-> "", judge |-> None, prev_id |-> None, next_id |-> None,
     action |-> "", tries |-> 0, stale |-> FALSE, effect |-> FALSE, resp |-> ""]

\* A commit that changed the database invalidates what the others read.
mark_stale(fl, changed) ==
    [s \in Slots |-> IF changed /\ fl[s].st = "running"
                     THEN [fl[s] EXCEPT !.stale = TRUE]
                     ELSE fl[s]]

\* Form submissions accepted so far: each one adds a row to ignore.
acts == SumOver([j \in Judges |-> SumOver(ignore[j], Items)], Judges)

\* Admin requests served and minutes passed so far.
events == adminOps + (now - 1)

(***************************************************************************)
(* The judge's requests served without another transaction in between:    *)
(* with_retries(tx) runs tx once.                                          *)
(***************************************************************************)
\* requires_open, requires_active_annotator
\* requires_open that lets every request through.
requires_open_unchecked == TRUE

requires_open == ~closed
requires_active_annotator(j) == ann_active[j]

\* sync_annotator_from_auth_server, for an annotator that exists
synced_active(j, privilege) ==
    IF privilege = NoSession THEN ann_active[j] ELSE privilege >= MIN_JUDGE_ROLE

Index(j, privilege) ==
    /\ ann_active' = [ann_active EXCEPT ![j] = synced_active(j, privilege)]
    /\ IF ~closed /\ synced_active(j, privilege)
       THEN maybe_init_tx(j)
       ELSE UNCHANGED <<items, next, prev, updated, ignore, alpha, beta,
                        decisions, closed>>
    /\ resp' = "ok"
    /\ inflight' = mark_stale(inflight, db' # db)
    /\ UNCHANGED <<now, adminOps>>

Vote(j, prev_id, next_id, action) ==
    /\ IF requires_open /\ requires_active_annotator(j)
       THEN IF vote_raises(j, prev_id, next_id)
            THEN UNCHANGED db /\ resp' = "error"
            ELSE vote_tx(j, prev_id, next_id, action) /\ resp' = "ok"
       ELSE UNCHANGED db /\ resp' = "ok"
    /\ inflight' = mark_stale(inflight, db' # db)
    /\ UNCHANGED <<now, adminOps>>

Begin(j, applicant_id, action) ==
    /\ IF requires_open /\ requires_active_annotator(j)
       THEN IF begin_raises(j)
            THEN UNCHANGED db /\ resp' = "error"
            ELSE begin_tx(j, applicant_id, action) /\ resp' = "ok"
       ELSE UNCHANGED db /\ resp' = "ok"
    /\ inflight' = mark_stale(inflight, db' # db)
    /\ UNCHANGED <<now, adminOps>>

(***************************************************************************)
(* Admin requests.                                                         *)
(***************************************************************************)
AdminApplicantPrioritize(a, target_state) ==
    /\ events < MaxEvents
    /\ prioritized' = [prioritized EXCEPT ![a] = target_state]
    /\ adminOps' = adminOps + 1
    /\ resp' = "ok"
    /\ UNCHANGED <<active, viewed, mu, sigma_sq, annotators, decisions, closed, now>>
    /\ inflight' = mark_stale(inflight, db' # db)

AdminApplicantEnable(a, target_state) ==
    /\ events < MaxEvents
    /\ active' = [active EXCEPT ![a] = target_state]
    /\ adminOps' = adminOps + 1
    /\ resp' = "ok"
    /\ UNCHANGED <<prioritized, viewed, mu, sigma_sq, annotators, decisions, closed, now>>
    /\ inflight' = mark_stale(inflight, db' # db)

AdminAnnotatorEnable(j, target_state) ==
    /\ events < MaxEvents
    /\ ann_active' = [ann_active EXCEPT ![j] = target_state]
    /\ adminOps' = adminOps + 1
    /\ resp' = "ok"
    /\ UNCHANGED <<items, next, prev, updated, ignore, alpha, beta, decisions, closed, now>>
    /\ inflight' = mark_stale(inflight, db' # db)

AdminSetting(close) ==
    /\ events < MaxEvents
    /\ closed' = close
    /\ adminOps' = adminOps + 1
    /\ resp' = "ok"
    /\ UNCHANGED <<items, annotators, decisions, now>>
    /\ inflight' = mark_stale(inflight, db' # db)

\* sync_applicants as it gives every applicant the priors again.
AdminSyncApplicants_reinitializes ==
    /\ events < MaxEvents
    /\ mu' = [a \in Items |-> MU_PRIOR]
    /\ sigma_sq' = [a \in Items |-> SIGMA_SQ_PRIOR]
    /\ adminOps' = adminOps + 1
    /\ resp' = "ok"
    /\ UNCHANGED <<active, prioritized, viewed, annotators, decisions, closed, now>>
    /\ inflight' = mark_stale(inflight, db' # db)

\* POST /admin/sync with action sync_applicants: update_from_api writes the
\* profile columns of the applicants that exist (name, university, ...),
\* none of which is a field of the judging state.
AdminSyncApplicants ==
    /\ events < MaxEvents
    /\ adminOps' = adminOps + 1
    /\ resp' = "ok"
    /\ UNCHANGED <<db, now>>
    /\ inflight' = mark_stale(inflight, db' # db)

(***************************************************************************)
(* POST /admin/applicant with action Delete.  The transaction deletes the  *)
(* applicant's rows of ignore, then the applicant; the second statement    *)
(* fails on a foreign key if a Decision, a judge's next or prev or a row   *)
(* of viewed still refers to the applicant.  The IntegrityError leaves     *)
(* with_retries and the handler answers with an error; nothing was         *)
(* committed and the session is discarded with the request.  The model's   *)
(* applicants are a fixed set: a deleted applicant is left as an inactive, *)
(* not prioritized applicant that nobody ignores, which no query of the    *)
(* judges' requests returns.                                               *)
(***************************************************************************)
\* The rows that hold a foreign key to applicant a, those of ignore aside.
foreign_key_references(a) ==
    \/ \E k \in 1..Len(decisions) : a \in {decisions[k].winner, decisions[k].loser}
    \/ \E j \in Judges : next[j] = a \/ prev[j] = a
    \/ \E j \in Judges : viewed[a][j] > 0

\* ignore_table.delete(ignore_table.c.applicant_id == applicant_id)
ignore_without(a) == [j \in Judges |-> [ignore[j] EXCEPT ![a] = 0]]

\* The Delete whose first statement stays when the second one fails.
AdminApplicantDelete_partial(a) ==
    /\ events < MaxEvents
    /\ ignore' = ignore_without(a)
    /\ IF foreign_key_references(a)
       THEN /\ UNCHANGED <<items, ann_active, next, prev, updated, alpha, beta,
                           decisions, closed>>
            /\ resp' = "error"
       ELSE /\ active' = [active EXCEPT ![a] = FALSE]
            /\ prioritized' = [prioritized EXCEPT ![a] = FALSE]
            /\ UNCHANGED <<viewed, mu, sigma_sq, ann_active, next, prev, updated,
                           alpha, beta, decisions, closed>>
            /\ resp' = "ok"
    /\ adminOps' = adminOps + 1
    /\ UNCHANGED now
    /\ inflight' = mark_stale(inflight, db' # db)

AdminApplicantDelete(a) ==
    /\ events < MaxEvents
    /\ IF foreign_key_references(a)
       THEN UNCHANGED db /\ resp' = "error"
       ELSE /\ ignore' = ignore_without(a)
            /\ active' = [active EXCEPT ![a] = FALSE]
            /\ prioritized' = [prioritized EXCEPT ![a] = FALSE]
            /\ UNCHANGED <<viewed, mu, sigma_sq, ann_active, next, prev, updated,
                           alpha, beta, decisions, closed>>
            /\ resp' = "ok"
    /\ adminOps' = adminOps + 1
    /\ UNCHANGED now
    /\ inflight' = mark_stale(inflight, db' # db)

(***************************************************************************)
(* Admin authentication (gavel/firebase_auth.py).  A request carries the   *)
(* __session cookie or none.  Of a token the model keeps whether it parses *)
(* as a JWT, what firebase_auth.verify_session_cookie(check_revoked=True)  *)
(* makes of it, the privilege its claims carry for AUTH_ENVIRONMENT (0 if  *)
(* absent) and whether its claims name a user (uid or email).              *)
(***************************************************************************)
Verifications == {"valid", "invalid", "expired", "revoked"}
TokenPrivileges == {0, MIN_ADMIN_ROLE - 1, MIN_ADMIN_ROLE}

AdminRequests ==
    {r \in [cookie : BOOLEAN, wellformed : BOOLEAN, verification : Verifications,
            privilege : TokenPrivileges, identified : BOOLEAN] :
        /\ ~r.cookie => (~r.wellformed /\ r.verification = "invalid"
                            /\ r.privilege = 0 /\ ~r.identified)
        /\ ~r.wellformed => (r.verification = "invalid" /\ r.privilege = 0
                                /\ ~r.identified)}

\* None, as the value of decoded claims or of user data.
NoClaims == [some |-> FALSE, privilege |-> 0, identified |-> FALSE]

claims_of(token) ==
    [some |-> TRUE, privilege |-> token.privilege, identified |-> token.identified]

\* The decoded claims when the SDK accepts the cookie, None for every error.
verify_session_cookie_with_admin(token) ==
    IF token.verification = "valid" THEN claims_of(token) ELSE NoClaims

\* jwt.decode(token, options={"verify_signature": False}): the claims of any
\* token that parses.  PyJWT 1.x still checks exp, PyJWT 2.x does not:
\* verify_exp says which.
jwt_decode_unverified(token, verify_exp) ==
    IF ~token.wellformed THEN NoClaims
    ELSE IF verify_exp /\ token.verification = "expired" THEN NoClaims
    ELSE claims_of(token)

decode_session_token(token, verify_exp) ==
    LET admin_decoded == verify_session_cookie_with_admin(token)
    IN  IF admin_decoded.some
        THEN admin_decoded
        ELSE jwt_decode_unverified(token, verify_exp)

verify_hackpsu_session(request, verify_exp) ==
    IF ~request.cookie
    THEN NoClaims
    ELSE LET user_data == decode_session_token(request, verify_exp)
         IN  IF ~user_data.some THEN NoClaims
             ELSE IF ~user_data.identified THEN NoClaims
             ELSE user_data

extract_user_privilege(user_data) == user_data.privilege

check_admin_permission(user_data) == extract_user_privilege(user_data) >= MIN_ADMIN_ROLE

\* The handlers of gavel/controllers/admin.py that change a modelled field.
AdminHandler ==
    \/ \E a \in Items, t \in BOOLEAN : AdminApplicantPrioritize(a, t)
    \/ \E a \in Items, t \in BOOLEAN : AdminApplicantEnable(a, t)
    \/ \E j \in Judges, t \in BOOLEAN : AdminAnnotatorEnable(j, t)
    \/ \E c \in BOOLEAN : AdminSetting(c)
    \/ AdminSyncApplicants

\* A request to a route wrapped by hackpsu_admin_required: a redirect to the
\* login page, a 403 page, or the handler.  The annotator row the decorator
\* syncs for the admin is the admin's own, none of Judges.
hackpsu_admin_required(request, verify_exp) ==
    LET user_data == verify_hackpsu_session(request, verify_exp)
    IN  IF ~user_data.some
        THEN resp' = "login" /\ UNCHANGED <<db, now, adminOps, inflight>>
        ELSE IF ~check_admin_permission(user_data)
        THEN resp' = "forbidden" /\ UNCHANGED <<db, now, adminOps, inflight>>
        ELSE AdminHandler

\* A minute passes.
Tick ==
    /\ events < MaxEvents
    /\ now' = now + 1
    /\ UNCHANGED <<db, adminOps, resp, inflight>>

(***************************************************************************)
(* Requests in flight.  The form a judge submits carries the ids of the    *)
(* page it is on: vote.html when prev and next are set, begin.html when    *)
(* only next is.  The decorators ran before the transaction starts.        *)
(***************************************************************************)
Submit(s, j, op, action) ==
    /\ inflight[s].st = "idle"
    /\ \A t \in 1..(s - 1) : inflight[t].st # "idle"
    /\ s > 1 => \E t \in Slots : inflight[t].st = "running"
    /\ requires_open /\ requires_active_annotator(j)
    /\ \/ op = "vote" /\ action \in VoteActions /\ prev[j] # None /\ next[j] # None
       \/ op = "begin" /\ action \in BeginActions /\ prev[j] = None /\ next[j] # None
       \/ op = "index" /\ action = ""
    /\ inflight' = [inflight EXCEPT ![s] =
                       [st |-> "running", op |-> op, judge |-> j,
                        prev_id |-> IF op = "vote" THEN prev[j] ELSE None,
                        next_id |-> IF op = "index" THEN None ELSE next[j],
                        action |-> action, tries |-> 0, stale |-> FALSE,
                        effect |-> FALSE, resp |-> ""]]
    /\ UNCHANGED <<db, now, adminOps, resp>>

tx_raises(r) ==
    \/ r.op = "vote" /\ vote_raises(r.judge, r.prev_id, r.next_id)
    \/ r.op = "begin" /\ begin_raises(r.judge)

run_tx(r) ==
    \/ r.op = "vote" /\ vote_tx(r.judge, r.prev_id, r.next_id, r.action)
    \/ r.op = "begin" /\ begin_tx(r.judge, r.next_id, r.action)
    \/ r.op = "index" /\ maybe_init_tx(r.judge) /\ UNCHANGED ann_active

finished(r, response, changed) ==
    [r EXCEPT !.st = "done", !.stale = FALSE, !.resp = response, !.effect = changed]

\* The transaction runs on the state it read and commits; an exception of
\* tx leaves with_retries at once.
Attempt(s) ==
    /\ inflight[s].st = "running"
    /\ ~inflight[s].stale
    /\ IF tx_raises(inflight[s])
       THEN UNCHANGED db /\ resp' = "error"
       ELSE run_tx(inflight[s]) /\ resp' = "ok"
    /\ inflight' = [mark_stale(inflight, db' # db) EXCEPT
                       ![s] = finished(inflight[s], resp', db' # db)]
    /\ UNCHANGED <<now, adminOps>>

\* Retrying without counting the tries against MAX_RETRIES.
Conflict_unbounded(s) ==
    /\ inflight[s].st = "running"
    /\ inflight[s].stale
    /\ inflight' = [inflight EXCEPT ![s].tries = @ + 1, ![s].stale = FALSE]
    /\ UNCHANGED <<db, now, adminOps, resp>>

\* The commit meets a conflict: rollback, and tx runs again.
Conflict(s) ==
    /\ inflight[s].st = "running"
    /\ inflight[s].stale
    /\ inflight[s].tries < MAX_RETRIES
    /\ inflight' = [inflight EXCEPT ![s].tries = @ + 1, ![s].stale = FALSE]
    /\ UNCHANGED <<db, now, adminOps, resp>>

\* The commit meets a conflict and no retry is left: the request fails.
Exhaust(s) ==
    /\ inflight[s].st = "running"
    /\ inflight[s].stale
    /\ inflight[s].tries = MAX_RETRIES
    /\ inflight' = [inflight EXCEPT ![s] = finished(inflight[s], "error", FALSE)]
    /\ resp' = "error"
    /\ UNCHANGED <<db, now, adminOps>>

(***************************************************************************)
(* The state after the applicants were synced and the judges were created  *)
(* and have read the welcome page: beliefs at the priors, nothing          *)
(* assigned, nothing viewed or ignored, no decision.                       *)
(***************************************************************************)
Init ==
    /\ active = [a \in Items |-> TRUE]
    /\ prioritized = [a \in Items |-> FALSE]
    /\ viewed = [a \in Items |-> [j \in Judges |-> 0]]
    /\ mu = [a \in Items |-> MU_PRIOR]
    /\ sigma_sq = [a \in Items |-> SIGMA_SQ_PRIOR]
    /\ ann_active = [j \in Judges |-> TRUE]
    /\ next = [j \in Judges |-> None]
    /\ prev = [j \in Judges |-> None]
    /\ updated = [j \in Judges |-> None]
    /\ ignore = [j \in Judges |-> [a \in Items |-> 0]]
    /\ alpha = [j \in Judges |-> ALPHA_PRIOR]
    /\ beta = [j \in Judges |-> BETA_PRIOR]
    /\ decisions = <<>>
    /\ closed = FALSE
    /\ now = 1
    /\ adminOps = 0
    /\ resp = "ok"
    /\ inflight = [s \in Slots |-> IdleSlot]

\* Requests served one at a time, admin requests and time.
Next ==
    \/ \E j \in Judges, privilege \in Privileges : acts < MaxActs /\ Index(j, privilege)
    \/ \E j \in Judges, a \in Items, action \in BeginActions :
           acts < MaxActs /\ Begin(j, a, action)
    \/ \E j \in Judges, p \in Items, n \in Items, action \in VoteActions :
           acts < MaxActs /\ Vote(j, p, n, action)
    \/ \E a \in Items, t \in BOOLEAN : AdminApplicantPrioritize(a, t)
    \/ \E a \in Items, t \in BOOLEAN : AdminApplicantEnable(a, t)
    \/ \E j \in Judges, t \in BOOLEAN : AdminAnnotatorEnable(j, t)
    \/ \E c \in BOOLEAN : AdminSetting(c)
    \/ AdminSyncApplicants
    \/ Tick

Spec == Init /\ [][Next]_vars

(***************************************************************************)
(* Judges' requests, up to NumSlots of them in flight at the same time     *)
(* with the others: every form carries the ids of the page the judge is    *)
(* on.  The run ends when the requests in flight have all been answered.   *)
(***************************************************************************)
in_budget == acts < MaxActsConc /\ \E s \in Slots : inflight[s].st # "done"
quiet == \A s \in Slots : inflight[s].st = "idle"

NextConc ==
    \/ \E j \in Judges, privilege \in Privileges : in_budget /\ Index(j, privilege)
    \/ \E j \in Judges :
           quiet /\ in_budget /\ prev[j] = None /\ Begin(j, next[j], "Continue")
    \/ \E s \in Slots, j \in Judges, action \in VoteActions :
           in_budget /\ Submit(s, j, "vote", action)
    \/ \E s \in Slots, j \in Judges, action \in BeginActions :
           in_budget /\ Submit(s, j, "begin", action)
    \/ \E s \in Slots, j \in Judges : in_budget /\ Submit(s, j, "index", "")
    \/ \E s \in Slots : Attempt(s)
    \/ \E s \in Slots : Conflict(s)
    \/ \E s \in Slots : Exhaust(s)

SpecConc == Init /\ [][NextConc]_vars

\* A request's thread runs until the request is answered.
FairSpecConc ==
    SpecConc /\ \A s \in Slots : WF_vars(Attempt(s) \/ Conflict(s) \/ Exhaust(s))

(***************************************************************************)
(* Judges' requests served one at a time while the minutes pass, up to      *)
(* MaxNow: assignments are left alone for longer than TIMEOUT.              *)
(***************************************************************************)
\* A minute passes.
Elapse ==
    /\ now < MaxNow
    /\ now' = now + 1
    /\ UNCHANGED <<db, adminOps, resp, inflight>>

NextAging ==
    \/ \E j \in Judges, privilege \in Privileges :
           acts < MaxActsAging /\ Index(j, privilege)
    \/ \E j \in Judges, a \in Items, action \in BeginActions :
           acts < MaxActsAging /\ Begin(j, a, action)
    \/ \E j \in Judges, p \in Items, n \in Items, action \in VoteActions :
           acts < MaxActsAging /\ Vote(j, p, n, action)
    \/ Elapse

SpecAging == Init /\ [][NextAging]_vars

(***************************************************************************)
(* Judges' requests served one at a time, and the admin deleting an        *)
(* applicant.                                                              *)
(***************************************************************************)
NextDelete ==
    \/ \E j \in Judges, privilege \in Privileges :
           acts < MaxActsDelete /\ Index(j, privilege)
    \/ \E j \in Judges, a \in Items, action \in BeginActions :
           acts < MaxActsDelete /\ Begin(j, a, action)
    \/ \E j \in Judges, p \in Items, n \in Items, action \in VoteActions :
           acts < MaxActsDelete /\ Vote(j, p, n, action)
    \/ \E a \in Items : AdminApplicantDelete(a)

SpecDelete == Init /\ [][NextDelete]_vars

(***************************************************************************)
(* Judges' requests served one at a time, and requests to the admin        *)
(* routes with any session cookie or none.                                 *)
(***************************************************************************)
NextAdmin ==
    \/ \E j \in Judges, privilege \in Privileges :
           acts < MaxActsAdmin /\ Index(j, privilege)
    \/ \E j \in Judges, a \in Items, action \in BeginActions :
           acts < MaxActsAdmin /\ Begin(j, a, action)
    \/ \E j \in Judges, p \in Items, n \in Items, action \in VoteActions :
           acts < MaxActsAdmin /\ Vote(j, p, n, action)
    \/ \E request \in AdminRequests, verify_exp \in BOOLEAN :
           hackpsu_admin_required(request, verify_exp)

SpecAdmin == Init /\ [][NextAdmin]_vars

(***************************************************************************)
(* The judges going through the items: each one continues from the first   *)
(* item it is given and then votes on every pair it is shown, until it has  *)
(* seen every item.                                                         *)
(***************************************************************************)
NextVotes ==
    \/ \E j \in Judges : Index(j, NoSession)
    \/ \E j \in Judges :
           prev[j] = None /\ next[j] # None /\ Begin(j, next[j], "Continue")
    \/ \E j \in Judges, action \in {"Previous", "Current"} :
           prev[j] # None /\ next[j] # None /\ Vote(j, prev[j], next[j], action)

SpecVotes == Init /\ [][NextVotes]_vars

(***************************************************************************)
(* Properties.                                                             *)
(***************************************************************************)
STEADY(j) == prev[j] # None /\ next[j] # None
served(j) == requires_open /\ requires_active_annotator(j)

\* C1: whenever a step gives judge j a new next, the new next is not in
\* j.ignore, the next it replaces is in j.ignore from then on, and a row of
\* ignore is never removed: no item is assigned to the same judge twice.
C1_NextNeverIgnored ==
    [][\A j \in Judges :
          /\ \A a \in Items : ignore'[j][a] >= ignore[j][a]
          /\ next'[j] # next[j] =>
                /\ next'[j] # None => ignore'[j][next'[j]] = 0
                /\ next[j] # None => ignore'[j][next[j]] > 0]_vars

\* A judge on its third item, the two before it ignored.
C1_Witness ==
    \E j \in Judges :
        /\ next[j] # None
        /\ Cardinality(ids(ignore[j])) = 2
        /\ next[j] \notin ids(ignore[j])

\* C2: a vote on a judge in STEADY whose claimed ids differ from the live
\* (prev, next) leaves the whole database as it is: no Decision, no belief,
\* no prev, next, ignore, updated, viewed changes.
C2_MismatchedVoteChangesNothing ==
    \A j \in Judges, p \in Items, n \in Items, action \in VoteActions :
        (STEADY(j) /\ (p # prev[j] \/ n # next[j])) =>
            ~ENABLED (Vote(j, p, n, action) /\ db' # db)

\* A judge in STEADY that is served a vote with the ids of another page.
C2_Witness ==
    \E j \in Judges, p \in Items, n \in Items :
        /\ STEADY(j) /\ served(j) /\ Len(decisions) > 0
        /\ p # prev[j] /\ n = next[j]
        /\ ENABLED (Vote(j, p, n, "Current") /\ db' = db /\ resp' = "ok")

\* C3: a vote whose claimed ids do not match the judge's live state is
\* answered without an error; stated for the judge the claim names last, the
\* one whose pool emptied after it had been through begin (prev set, next
\* none), where no claimed next id matches.
C3_StaleVoteNeverErrors ==
    \A j \in Judges, p \in Items, n \in Items, action \in VoteActions :
        (served(j) /\ prev[j] # None /\ next[j] = None) =>
            ~ENABLED (Vote(j, p, n, action) /\ resp' = "error")

\* What a counted vote of judge j leaves, with X = prev and Y = next before
\* it and w, l the winner and loser the action names.
counted_vote_post(j, w, l) ==
    LET u == update(alpha[j], beta[j], mu[w], sigma_sq[w], mu[l], sigma_sq[l])
    IN  /\ decisions' = Append(decisions, [annotator |-> j, winner |-> w, loser |-> l])
        /\ alpha'[j] = u.alpha /\ beta'[j] = u.beta
        /\ mu'[w] = u.mu_winner /\ sigma_sq'[w] = u.sigma_sq_winner
        /\ mu'[l] = u.mu_loser /\ sigma_sq'[l] = u.sigma_sq_loser
        /\ \A a \in Items \ {w, l} : mu'[a] = mu[a] /\ sigma_sq'[a] = sigma_sq[a]
        /\ \A k \in Judges \ {j} : alpha'[k] = alpha[k] /\ beta'[k] = beta[k]
        /\ prev'[j] = next[j]
        /\ ignore'[j][next[j]] > 0
        /\ viewed'[next[j]][j] > 0

\* C5: in STEADY with prev = X and next = Y both active and the claimed ids
\* matching, Previous appends exactly the Decision (j, winner X, loser Y) and
\* Current exactly (j, winner Y, loser X); the beliefs are those of update
\* with the same roles; afterwards prev = Y, Y is ignored and viewed by j.
C5_CountedVote ==
    [][\A j \in Judges :
          (served(j) /\ STEADY(j) /\ active[prev[j]] /\ active[next[j]]) =>
              /\ Vote(j, prev[j], next[j], "Previous")
                     => counted_vote_post(j, prev[j], next[j])
              /\ Vote(j, prev[j], next[j], "Current")
                     => counted_vote_post(j, next[j], prev[j])]_vars

\* A judge after a Previous and then a Current vote: both Decisions have the
\* item between them as loser, and the judge's prev is the last winner.
C5_Witness ==
    /\ Len(decisions) = 2
    /\ decisions[1].annotator = decisions[2].annotator
    /\ decisions[1].loser = decisions[2].loser
    /\ decisions[1].winner # decisions[2].winner
    /\ prev[decisions[2].annotator] = decisions[2].winner
    /\ viewed[decisions[2].winner][decisions[2].annotator] > 0

\* What choose_next may give judge j once ignored holds the rows of ignore.
may_be_chosen(ignored) ==
    IF preferred_applicants(ignored) = {} THEN {None} ELSE preferred_applicants(ignored)

\* What a vote of judge j on a pair with a deactivated item leaves.
uncounted_vote_post(j) ==
    /\ decisions' = decisions
    /\ mu' = mu /\ sigma_sq' = sigma_sq /\ alpha' = alpha /\ beta' = beta
    /\ viewed'[next[j]][j] = viewed[next[j]][j] + 1
    /\ prev'[j] = next[j]
    /\ ignore'[j][next[j]] > 0
    /\ next'[j] # next[j]
    /\ next'[j] \in may_be_chosen(ignore'[j])

\* C6: a Previous or Current vote with matching ids on a pair of which prev
\* or next is no longer active records no Decision and changes no belief,
\* but marks next viewed, makes it prev, ignores it and chooses a new next;
\* and a step that does record a Decision records it on two active items.
C6_DeactivatedVote ==
    [][\A j \in Judges, action \in {"Previous", "Current"} :
          /\ (/\ served(j) /\ STEADY(j) /\ ~(active[prev[j]] /\ active[next[j]])
              /\ Vote(j, prev[j], next[j], action))
                 => uncounted_vote_post(j)
          /\ decisions' # decisions =>
                 /\ active[decisions'[Len(decisions')].winner]
                 /\ active[decisions'[Len(decisions')].loser]]_vars

\* A judge that has viewed two items while no Decision was recorded: its
\* vote on the pair did not count.
C6_Witness ==
    \E j \in Judges :
        /\ Cardinality({a \in Items : viewed[a][j] > 0}) >= 2
        /\ decisions = <<>>
        /\ \E a \in Items : ~active[a]
        /\ prev[j] # None /\ viewed[prev[j]][j] > 0

\* An item held as next by another active judge whose assignment is younger
\* than TIMEOUT.
held_by_other(j, a) ==
    \E k \in Judges \ {j} :
        /\ ann_active[k] /\ next[k] = a
        /\ updated[k] # None /\ now - updated[k] < TIMEOUT

\* The candidates of judge j after the active / not-ignored / prioritized
\* filtering, ignored being the rows of j.ignore.
candidates(ignored) ==
    LET avail == {a \in Items : active[a] /\ ignored[a] = 0}
        prio == {a \in avail : prioritized[a]}
    IN  IF prio # {} THEN prio ELSE avail

\* C10: with requests served one at a time, a step that gives judge j a new
\* next does not give it an item held by another active judge within
\* TIMEOUT, if one of j's candidates is not so held (nor j's own next); and
\* an item held only by inactive judges or by assignments older than
\* TIMEOUT is not busy.
C10_NoBusyAssignment ==
    /\ [][\A j \in Judges :
             (/\ next'[j] # next[j] /\ next'[j] # None
              /\ \E a \in candidates(ignore'[j]) : ~held_by_other(j, a))
                 => ~held_by_other(j, next'[j])]_vars
    /\ [](\A a \in Items :
             (\A k \in Judges : next[k] = a =>
                  ~ann_active[k] \/ updated[k] = None \/ now - updated[k] >= TIMEOUT)
                 => a \notin busy)

\* Two active judges holding different items, both assigned this minute.
C10_Witness ==
    \E j \in Judges, k \in Judges :
        /\ j # k /\ ann_active[j] /\ ann_active[k]
        /\ next[j] # None /\ next[k] # None /\ next[j] # next[k]
        /\ updated[j] = now /\ updated[k] = now

(***************************************************************************)
(* Properties of the requests in flight.                                   *)
(***************************************************************************)
answered(s) == inflight[s].st = "done"
decisions_of(j) == {i \in DOMAIN decisions : decisions[i].annotator = j}

\* Two answered vote requests of one judge with the same form.
double_click(s, t) ==
    /\ s # t /\ answered(s) /\ answered(t)
    /\ inflight[s].op = "vote" /\ inflight[t].op = "vote"
    /\ inflight[s].judge = inflight[t].judge
    /\ inflight[s].prev_id = inflight[t].prev_id
    /\ inflight[s].next_id = inflight[t].next_id
    /\ inflight[s].action = inflight[t].action
    /\ inflight[s].action \in {"Previous", "Current"}

\* C4: of two identical Previous / Current vote requests of one judge, in
\* any interleaving, at most one takes effect: the Decision log holds the
\* pair at most once, once if one request took effect and then with the
\* roles the action names, and the judge's belief was updated once per
\* Decision of the judge.
C4_DoubleClickCountsOnce ==
    \A s \in Slots, t \in Slots :
        double_click(s, t) =>
            LET j == inflight[s].judge
                X == inflight[s].prev_id
                Y == inflight[s].next_id
                d == IF inflight[s].action = "Previous"
                     THEN [annotator |-> j, winner |-> X, loser |-> Y]
                     ELSE [annotator |-> j, winner |-> Y, loser |-> X]
                on_pair == {i \in decisions_of(j) :
                               {decisions[i].winner, decisions[i].loser} = {X, Y}}
            IN  /\ ~(inflight[s].effect /\ inflight[t].effect)
                /\ Cardinality(on_pair) <= 1
                /\ (inflight[s].effect \/ inflight[t].effect) =>
                       \E i \in on_pair : decisions[i] = d
                /\ alpha[j] + beta[j] =
                       ALPHA_PRIOR + BETA_PRIOR + Cardinality(decisions_of(j))

\* Both requests of a double click answered, one of them after a retry.
C4_Witness ==
    \E s \in Slots, t \in Slots :
        /\ double_click(s, t)
        /\ inflight[s].effect /\ ~inflight[t].effect
        /\ inflight[t].tries > 0 /\ inflight[t].resp = "ok"

\* The beliefs after the Decisions of log, in order, from the priors.
RECURSIVE replay(_)
replay(log) ==
    IF log = <<>>
    THEN [alpha |-> [j \in Judges |-> ALPHA_PRIOR],
          beta |-> [j \in Judges |-> BETA_PRIOR],
          mu |-> [a \in Items |-> MU_PRIOR],
          sigma_sq |-> [a \in Items |-> SIGMA_SQ_PRIOR]]
    ELSE LET b == replay(SubSeq(log, 1, Len(log) - 1))
             d == log[Len(log)]
             u == update(b.alpha[d.annotator], b.beta[d.annotator],
                         b.mu[d.winner], b.sigma_sq[d.winner],
                         b.mu[d.loser], b.sigma_sq[d.loser])
         IN  [alpha |-> [b.alpha EXCEPT ![d.annotator] = u.alpha],
              beta |-> [b.beta EXCEPT ![d.annotator] = u.beta],
              mu |-> [b.mu EXCEPT ![d.winner] = u.mu_winner,
                                  ![d.loser] = u.mu_loser],
              sigma_sq |-> [b.sigma_sq EXCEPT ![d.winner] = u.sigma_sq_winner,
                                              ![d.loser] = u.sigma_sq_loser]]

\* C7: in every state reached by votes in flight together, every item's
\* (mu, sigma_sq) and every judge's (alpha, beta) are the fold of update over
\* the Decision table in commit order, from the priors.
C7_BeliefsAreTheFold ==
    replay(decisions) = [alpha |-> alpha, beta |-> beta, mu |-> mu, sigma_sq |-> sigma_sq]

\* Votes of two judges on pairs that share an item, in flight together, both
\* committed, the second after a retry.
C7_Witness ==
    \E s \in Slots, t \in Slots :
        /\ answered(s) /\ answered(t)
        /\ inflight[s].op = "vote" /\ inflight[t].op = "vote"
        /\ inflight[s].judge # inflight[t].judge
        /\ inflight[s].effect /\ inflight[t].effect
        /\ inflight[t].tries > 0
        /\ Len(decisions) = 2
        /\ {decisions[1].winner, decisions[1].loser}
               \cap {decisions[2].winner, decisions[2].loser} # {}

\* No committed state holds a part of a transition.
no_partial_transition ==
    \A j \in Judges :
        /\ alpha[j] + beta[j] = ALPHA_PRIOR + BETA_PRIOR + Cardinality(decisions_of(j))
        /\ \A a \in Items : viewed[a][j] > 0 => ignore[j][a] > 0
        /\ prev[j] # None => viewed[prev[j]][j] > 0 /\ ignore[j][prev[j]] > 0
        /\ next[j] # None => ignore[j][next[j]] = 0
        /\ next[j] # None => updated[j] # None

\* C8: an attempt that meets a conflict leaves the database as it is (its
\* result is discarded; the transaction runs again or the request fails),
\* and no reachable state holds a part of a transition: a Decision without
\* its belief update, a viewed mark without the ignore row and prev, an
\* ignore row on the item that still is next.
C8_TransitionsAreAtomic ==
    /\ []no_partial_transition
    /\ [][\A s \in Slots :
             (/\ inflight[s].st = "running" /\ inflight[s].stale
              /\ inflight'[s] # inflight[s])
                 => /\ db' = db
                    /\ \/ inflight'[s].st = "running" /\ ~inflight'[s].stale
                       \/ inflight'[s].st = "done" /\ ~inflight'[s].effect]_vars

\* A transition committed after its first attempt met a conflict.
C8_Witness ==
    \E s \in Slots :
        /\ answered(s) /\ inflight[s].tries > 0 /\ inflight[s].effect
        /\ inflight[s].op = "begin"

\* C9: a request is retried at most MAX_RETRIES times; it is answered,
\* by its commit or no-op ("ok") or by an error; when no retry is left
\* the conflict is answered with an error; and no request stays in flight
\* for ever (time and again none is).
C9_RetriesAreBounded ==
    /\ [](\A s \in Slots :
             /\ inflight[s].tries <= MAX_RETRIES
             /\ answered(s) => inflight[s].resp \in Responses
             /\ (answered(s) /\ inflight[s].effect) => inflight[s].resp = "ok")
    /\ [][\A s \in Slots :
             (/\ inflight[s].st = "running" /\ inflight[s].stale
              /\ inflight[s].tries = MAX_RETRIES
              /\ inflight'[s] # inflight[s])
                 => answered(s)' /\ inflight'[s].resp = "error" /\ resp' = "error"]_vars
    /\ []<>(\A s \in Slots : inflight[s].st # "running")

\* A vote that failed for want of a retry while the page it came from was
\* still the judge's, beside a request that committed.
C9_Witness ==
    \E s \in Slots, t \in Slots :
        /\ answered(s) /\ inflight[s].tries = MAX_RETRIES /\ inflight[s].resp = "error"
        /\ inflight[s].op = "vote" /\ prev[inflight[s].judge] = inflight[s].prev_id
        /\ next[inflight[s].judge] = inflight[s].next_id
        /\ answered(t) /\ inflight[t].effect /\ inflight[t].resp = "ok"

(***************************************************************************)
(* Properties of the candidate pool.                                       *)
(***************************************************************************)
\* The rows of j.ignore when a begin or vote of judge j comes to choose the
\* next item (the row for the item it is on appended), or when
\* maybe_init_annotator does (next is none).
ignore_at_choice(j) ==
    IF next[j] = None THEN ignore[j]
    ELSE [ignore[j] EXCEPT ![next[j]] = @ + 1]

\* An item that is the next of an active judge assigned within TIMEOUT.
held(a) ==
    \E k \in Judges :
        /\ ann_active[k] /\ next[k] = a
        /\ updated[k] # None /\ now - updated[k] < TIMEOUT

\* The set that remains after the busy step.
after_busy(ignored) ==
    LET c == candidates(ignored)
        free == {a \in c : ~held(a)}
    IN  IF free # {} THEN free ELSE c

\* The number of judges that have viewed item a.
views(a) == Cardinality({j \in Judges : viewed[a][j] > 0})

\* A step of judge j that chooses a next item: a vote, or Continue on begin.
chooses(j) ==
    /\ served(j) /\ next[j] # None
    /\ \/ prev[j] # None /\ \E action \in VoteActions : Vote(j, prev[j], next[j], action)
       \/ Begin(j, next[j], "Continue")

\* C11: when every candidate of judge j (active, not ignored, prioritized
\* first) is busy, the set after the busy step is the set of candidates, not
\* the empty set; the pool is empty only when there is no candidate; and a
\* step that chooses j's next makes it none only when there is no candidate.
C11_BusyFallback ==
    /\ [](\A j \in Judges :
             LET c == candidates(ignore_at_choice(j))
             IN  /\ (c # {} /\ \A a \in c : held(a)) =>
                        preferred(ignore_at_choice(j)) = c
                 /\ preferred_applicants(ignore_at_choice(j)) = {} <=> c = {})
    /\ [][\A j \in Judges :
             chooses(j) => (next'[j] = None <=> candidates(ignore_at_choice(j)) = {})]_vars

\* Two active judges holding the same item, both assigned this minute: the
\* second got it when nothing else was left for it.
C11_Witness ==
    \E j \in Judges, k \in Judges :
        /\ j # k /\ ann_active[j] /\ ann_active[k]
        /\ next[j] # None /\ next[j] = next[k]
        /\ updated[j] = now /\ updated[k] = now
        /\ Cardinality(ids(ignore[j])) = 2

\* C12: when an active item outside j's ignore rows is prioritized as a
\* step comes to give judge j a next item, the item given is a prioritized
\* one.
C12_PrioritizedFirst ==
    [][\A j \in Judges :
          (/\ next'[j] # next[j] /\ next'[j] # None
           /\ \E a \in Items : active[a] /\ ignore'[j][a] = 0 /\ prioritized[a])
              => prioritized[next'[j]]]_vars

\* A judge about to be initialized while one of several items it could get
\* is prioritized: index gives it that one.
C12_Witness ==
    \E j \in Judges, a \in Items, b \in Items :
        /\ served(j) /\ next[j] = None /\ a # b
        /\ active[a] /\ active[b] /\ ignore[j][a] = 0 /\ ignore[j][b] = 0
        /\ prioritized[a] /\ ~prioritized[b] /\ ~held(b) /\ views(b) = 0
        /\ ENABLED (Index(j, NoSession) /\ next'[j] = a)

\* C13: if an item of the set after the busy step has fewer than MIN_VIEWS
\* viewers, the pool is the items of that set with fewer than MIN_VIEWS
\* viewers; otherwise it is the whole set; and the next a step chooses is an
\* item of the pool.
C13_LessSeenFirst ==
    /\ [](\A j \in Judges :
             LET rest == after_busy(ignore_at_choice(j))
                 fresh == {a \in rest : views(a) < MIN_VIEWS}
             IN  preferred_applicants(ignore_at_choice(j)) =
                     IF fresh # {} THEN fresh ELSE rest)
    /\ [][\A j \in Judges :
             LET rest == after_busy(ignore_at_choice(j))
                 fresh == {a \in rest : views(a) < MIN_VIEWS}
             IN  (chooses(j) /\ next'[j] # None) =>
                     next'[j] \in (IF fresh # {} THEN fresh ELSE rest)]_vars

\* A judge whose set after the busy step holds an item somebody has viewed
\* and one nobody has.
C13_Witness ==
    \E j \in Judges, a \in Items, b \in Items :
        /\ served(j) /\ next[j] = None
        /\ a \in after_busy(ignore[j]) /\ b \in after_busy(ignore[j])
        /\ views(a) >= MIN_VIEWS /\ views(b) < MIN_VIEWS
        /\ ENABLED (Index(j, NoSession) /\ next'[j] = b)

(***************************************************************************)
(* Properties of maybe_init_annotator.                                     *)
(***************************************************************************)
\* index has nothing to initialize for judge j.
settled(j) ==
    \/ closed \/ ~ann_active[j]
    \/ next[j] # None
    \/ preferred_applicants(ignore[j]) = {}

\* C14: index (without a Firebase session, so maybe_init_annotator is all
\* it does to the database) on a judge whose next is set changes nothing;
\* and after any index on judge j a second index on j at once changes
\* nothing: the first leaves j settled, and on a settled judge index changes
\* no table.
C14_InitIsIdempotent ==
    /\ [](\A j \in Judges :
             /\ next[j] # None => ~ENABLED (Index(j, NoSession) /\ db' # db)
             /\ settled(j) => ~ENABLED (Index(j, NoSession) /\ db' # db))
    /\ [][\A j \in Judges : Index(j, NoSession) => settled(j)']_vars

\* A judge with an item, assigned a minute ago, for whom the pool is not
\* empty: index leaves it as it is.
C14_Witness ==
    \E j \in Judges :
        /\ served(j) /\ next[j] # None /\ updated[j] < now
        /\ preferred_applicants(ignore[j]) # {}
        /\ ENABLED (Index(j, NoSession) /\ db' = db)

\* C15: whenever a step gives an item to a judge whose next was none, the
\* judge is in BEGIN afterwards: next is the item and prev is none.
C15_InitLeadsToBegin ==
    \A j \in Judges :
        (served(j) /\ next[j] = None) =>
            ~ENABLED (Index(j, NoSession) /\ next'[j] # None /\ prev'[j] # None)

(***************************************************************************)
(* Properties of begin and of Skip.                                        *)
(***************************************************************************)
BEGIN(j) == prev[j] = None /\ next[j] # None
beliefs == <<mu, sigma_sq, alpha, beta>>

\* C16: in BEGIN with next = X and the claimed id matching, Continue marks
\* X viewed by the judge, sets prev = X, adds X to ignore and sets next to
\* an item of the pool computed with X ignored (so not X), or to none if
\* that pool is empty; no Decision is recorded and no belief changes.
C16_BeginContinue ==
    [][\A j \in Judges :
          (served(j) /\ BEGIN(j) /\ Begin(j, next[j], "Continue")) =>
              /\ viewed'[next[j]][j] = viewed[next[j]][j] + 1
              /\ prev'[j] = next[j]
              /\ ignore'[j][next[j]] > 0
              /\ next'[j] # next[j]
              /\ next'[j] \in may_be_chosen(ignore'[j])
              /\ decisions' = decisions
              /\ beliefs' = beliefs]_vars

\* A judge that has continued from BEGIN: one item viewed and ignored, which
\* is its prev, and another one as next.
C16_Witness ==
    \E j \in Judges :
        /\ STEADY(j) /\ ids(ignore[j]) = {prev[j]}
        /\ viewed[prev[j]][j] = 1 /\ decisions = <<>>

\* C17: in BEGIN with next = X and the claimed id matching, Skip adds X to
\* ignore and sets next to none; prev stays none, X is not marked viewed by
\* the judge, no Decision is recorded and no belief changes.
C17_BeginSkip ==
    [][\A j \in Judges :
          (served(j) /\ BEGIN(j) /\ Begin(j, next[j], "Skip")) =>
              /\ ignore'[j][next[j]] > 0
              /\ next'[j] = None
              /\ prev'[j] = None
              /\ viewed' = viewed
              /\ decisions' = decisions
              /\ beliefs' = beliefs]_vars

\* A judge that has skipped from BEGIN: an item ignored, nothing viewed, no
\* prev and no next.
C17_Witness ==
    \E j \in Judges :
        /\ prev[j] = None /\ next[j] = None
        /\ ids(ignore[j]) # {}
        /\ \A a \in Items : viewed[a][j] = 0

\* C18: in STEADY with prev = X, next = Y and the claimed ids matching, Skip
\* adds Y to ignore, leaves prev = X and sets next to an item of the pool
\* other than Y, or to none if the pool is empty; no Decision is recorded,
\* no belief changes and the judge is not added to the viewers of Y.
C18_VoteSkip ==
    [][\A j \in Judges :
          (served(j) /\ STEADY(j) /\ Vote(j, prev[j], next[j], "Skip")) =>
              /\ ignore'[j][next[j]] > 0
              /\ prev'[j] = prev[j]
              /\ next'[j] # next[j]
              /\ next'[j] \in may_be_chosen(ignore'[j])
              /\ viewed' = viewed
              /\ decisions' = decisions
              /\ beliefs' = beliefs]_vars

\* A judge that has skipped an item in STEADY: it ignores an item it has
\* not viewed, and its prev is the item it continued from.
C18_Witness ==
    \E j \in Judges, a \in Items :
        /\ STEADY(j) /\ viewed[prev[j]][j] = 1
        /\ ignore[j][a] = 1 /\ viewed[a][j] = 0
        /\ Cardinality(ids(ignore[j])) = 2
        /\ decisions = <<>>

(***************************************************************************)
(* Properties of the beliefs.                                              *)
(***************************************************************************)
\* C19: mu, sigma_sq, alpha and beta change only in a step that records a
\* Decision, which is a Previous or Current vote of the Decision's judge on
\* the pair it holds; every other step (index with or without the sync of
\* the judge, begin, Skip, a stale form, the sync of the applicants, the
\* admin's Prioritize, Enable, Disable, close) leaves them as they were.
\* The vote changes alpha and beta of the voting judge only, and mu and
\* sigma_sq of the two applicants compared only.
C19_OnlyVotesMoveBeliefs ==
    [][/\ decisions' = decisions => beliefs' = beliefs
       /\ decisions' # decisions =>
              LET d == decisions'[Len(decisions')]
              IN  /\ decisions' = Append(decisions, d)
                  /\ {d.winner, d.loser} = {prev[d.annotator], next[d.annotator]}
                  /\ \E action \in {"Previous", "Current"} :
                         Vote(d.annotator, prev[d.annotator], next[d.annotator], action)
                  /\ \A k \in Judges \ {d.annotator} :
                         alpha'[k] = alpha[k] /\ beta'[k] = beta[k]
                  /\ \A a \in Items \ {d.winner, d.loser} :
                         mu'[a] = mu[a] /\ sigma_sq'[a] = sigma_sq[a]]_vars

\* One vote has been counted and the admin has acted after or before it: the
\* beliefs of the judge and of the pair are off the priors, the others are
\* the priors.
C19_Witness ==
    /\ Len(decisions) = 1 /\ adminOps = 1
    /\ LET d == decisions[1]
       IN  /\ mu[d.winner] # MU_PRIOR /\ mu[d.loser] # MU_PRIOR
           /\ alpha[d.annotator] # ALPHA_PRIOR \/ beta[d.annotator] # BETA_PRIOR
           /\ \A a \in Items \ {d.winner, d.loser} : mu[a] = MU_PRIOR
           /\ \A k \in Judges \ {d.annotator} : alpha[k] = ALPHA_PRIOR

\* C20: a begin form whose applicant id is not the judge's next, or that
\* arrives while next is none (a repeated Skip), changes no state and raises
\* no error.
C20_UnmatchedBeginIsNoOp ==
    [][\A j \in Judges, a \in Items, action \in BeginActions :
          (served(j) /\ a # next[j] /\ Begin(j, a, action)) =>
              db' = db /\ resp' # "error"]_vars

(***************************************************************************)
(* Properties of the busy step as time passes.                             *)
(***************************************************************************)
\* A judge that has held its next for more than TIMEOUT minutes.
aged_out(j) == next[j] # None /\ updated[j] # None /\ now - updated[j] > TIMEOUT

\* An active judge other than j that holds item a and was assigned it less
\* than TIMEOUT minutes ago.
freshly_held_besides(j, a) ==
    \E h \in Judges \ {j} :
        ann_active[h] /\ next[h] = a /\ updated[h] # None /\ now - updated[h] < TIMEOUT

\* C21: once more than TIMEOUT minutes have passed since judge j was given
\* its next, and whatever j does or does not do, the item is not busy on
\* account of j: it is not in the busy set unless another judge holds it
\* within TIMEOUT, and the busy step of another judge's pool keeps it if it
\* is one of that judge's candidates; and it stays so for as long as j's
\* assignment is not changed.
C21_AssignmentAgesOut ==
    /\ [](\A j \in Judges :
             (aged_out(j) /\ ~freshly_held_besides(j, next[j])) =>
                 /\ next[j] \notin busy
                 /\ \A k \in Judges \ {j} :
                        next[j] \in applicants_of(ignore_at_choice(k)) =>
                            next[j] \in preferred(ignore_at_choice(k)))
    /\ [][\A j \in Judges :
             (aged_out(j) /\ next'[j] = next[j] /\ updated'[j] = updated[j]) =>
                 aged_out(j)']_vars

\* Judge j has held an item for more than TIMEOUT minutes without acting on
\* it, and another judge, with another candidate at hand, can be given it.
C21_Witness ==
    \E j \in Judges, k \in Judges :
        /\ j # k /\ ann_active[j] /\ aged_out(j) /\ prev[j] = None
        /\ served(k) /\ next[k] = None
        /\ Cardinality(applicants_of(ignore[k])) >= 2
        /\ next[j] \in preferred_applicants(ignore[k])

(***************************************************************************)
(* Properties of the beliefs under repeated votes.                         *)
(***************************************************************************)
\* C22: in every reachable state, whatever votes were counted since the
\* priors, every item has sigma_sq > 0 and every judge has alpha > 0 and
\* beta > 0.
C22_BeliefsStayPositive ==
    /\ \A a \in Items : sigma_sq[a] > 0
    /\ \A j \in Judges : alpha[j] > 0 /\ beta[j] > 0

\* Every judge has voted on every pair it was shown, and an item has been
\* through four updates.
C22_Witness ==
    /\ Len(decisions) = 2 * NumJudges
    /\ \E a \in Items :
           Cardinality({k \in 1..Len(decisions) :
                            a \in {decisions[k].winner, decisions[k].loser}}) = 4

\* C23: a counted vote leaves the winner's and the loser's sigma_sq at or
\* below what they were, and no step of any kind raises an item's sigma_sq.
C23_VarianceNeverGrows ==
    [][/\ \A a \in Items : sigma_sq'[a] <= sigma_sq[a]
       /\ decisions' # decisions =>
              LET d == decisions'[Len(decisions')]
              IN  /\ sigma_sq'[d.winner] <= sigma_sq[d.winner]
                  /\ sigma_sq'[d.loser] <= sigma_sq[d.loser]]_vars

\* Three votes have been counted; an item compared for the third time has a
\* variance below that of an item compared once.
C23_Witness ==
    /\ Len(decisions) >= 3
    /\ \E a \in Items, b \in Items :
           /\ sigma_sq[a] < sigma_sq[b]
           /\ sigma_sq[b] < SIGMA_SQ_PRIOR
           /\ a \in {decisions[3].winner, decisions[3].loser}

(***************************************************************************)
(* Properties of the order and the inputs of the pool's steps.             *)
(***************************************************************************)
\* The busy set without judge j's own assignment.
busy_of_others(j) ==
    {next[k] : k \in {h \in Judges \ {j} :
                          /\ ann_active[h] /\ next[h] # None
                          /\ updated[h] # None /\ now - updated[h] < TIMEOUT}}

\* The pool of judge j with only the other judges' assignments busy.
pool_busy_of_others(j, ignored) ==
    LET c == applicants_of(ignored)
        free == {a \in c : a \notin busy_of_others(j)}
        rest == IF free # {} THEN free ELSE c
        fresh == {a \in rest : len_viewed(a) < MIN_VIEWS}
    IN  IF fresh # {} THEN fresh ELSE rest

\* C24: whenever the pool of judge j is computed (next is none, or the item
\* j is on has just been added to j.ignore), it is the pool computed with
\* only the other judges' assignments treated as busy: j's own next and
\* updated do not matter; and the item a step gives j is one of that pool.
C24_OwnAssignmentIsNotBusy ==
    /\ [](\A j \in Judges :
             preferred_applicants(ignore_at_choice(j)) =
                 pool_busy_of_others(j, ignore_at_choice(j)))
    /\ [][\A j \in Judges :
             (next'[j] # next[j] /\ next'[j] # None) =>
                 next'[j] \in pool_busy_of_others(j, ignore'[j])]_vars

\* Judge j's own assignment is in the busy set, on j's account only, while
\* j's pool is not empty.
C24_Witness ==
    \E j \in Judges :
        /\ served(j) /\ next[j] # None /\ updated[j] = now
        /\ next[j] \in busy /\ next[j] \notin busy_of_others(j)
        /\ preferred_applicants(ignore_at_choice(j)) # {}

\* The active items outside the rows of ignored, and the prioritized ones.
available(ignored) == {a \in Items : active[a] /\ ignored[a] = 0}
prioritized_of(ignored) == {a \in available(ignored) : prioritized[a]}

\* C25: the steps are applied in the order prioritized, non-busy,
\* under-viewed, each falling back to the set the step before left.  When an
\* available item is prioritized the pool holds prioritized items only, and
\* when all of them are busy the busy step leaves the prioritized set (no
\* non-busy item that is not prioritized comes in); when every non-busy
\* candidate has MIN_VIEWS views or more the pool is the non-busy set (no
\* busy item with fewer views comes in).
C25_FilterOrder ==
    \A j \in Judges :
        LET ig == ignore_at_choice(j)
            prio == prioritized_of(ig)
            c == IF prio # {} THEN prio ELSE available(ig)
            free == {a \in c : ~held(a)}
        IN  /\ prio # {} => preferred_applicants(ig) \subseteq prio
            /\ (prio # {} /\ \A a \in prio : held(a)) => preferred(ig) = prio
            /\ (free # {} /\ \A a \in free : views(a) >= MIN_VIEWS) =>
                   preferred_applicants(ig) = free

\* A judge waiting for an item whose non-busy candidates have all been
\* viewed, while a candidate nobody has viewed is busy: index gives it a
\* viewed one.
C25_Witness ==
    \E j \in Judges, a \in Items, b \in Items :
        /\ served(j) /\ next[j] = None
        /\ a \in candidates(ignore[j]) /\ b \in candidates(ignore[j])
        /\ held(a) /\ views(a) < MIN_VIEWS
        /\ ~held(b) /\ views(b) >= MIN_VIEWS
        /\ \A x \in candidates(ignore[j]) : ~held(x) => views(x) >= MIN_VIEWS
        /\ ENABLED (Index(j, NoSession) /\ next'[j] = b)

(***************************************************************************)
(* Properties of begin outside BEGIN, and of the choice of next.           *)
(***************************************************************************)
\* C26: a begin form submitted for a judge in STEADY (prev and next set)
\* changes no state, whatever id it claims: prev advances and next is
\* dropped through a vote only.
C26_BeginOnlyInBegin ==
    [][\A j \in Judges, a \in Items, action \in BeginActions :
          (served(j) /\ STEADY(j) /\ Begin(j, a, action)) => db' = db]_vars

\* What a step that selects judge j's next leaves: an item of the pool
\* computed with the rows of ignore it leaves, none exactly when that pool
\* is empty, and an answer that is not an error.
selected_from_pool(j) ==
    LET pool == preferred_applicants(ignore'[j])
    IN  /\ pool # {} => next'[j] \in pool
        /\ next'[j] = None <=> pool = {}
        /\ resp' = "ok"

\* C27: a step that selects a next for judge j takes it from the pool
\* computed in that step: the new next is an item of the pool when the pool
\* is not empty and none exactly when it is empty, and the request is
\* answered without an error either way.  This holds of index on a served
\* judge without next (maybe_init_annotator), and of Continue on begin and
\* of a vote or Skip on a pair (choose_next; each adds a row to j.ignore).
C27_NextComesFromThePool ==
    /\ [](\A j \in Judges, privilege \in Privileges :
             (~closed /\ next[j] = None /\ synced_active(j, privilege)) =>
                 ~ENABLED (Index(j, privilege) /\ ~selected_from_pool(j)))
    /\ [][\A j \in Judges :
             (ignore'[j] # ignore[j] /\ chooses(j)) => selected_from_pool(j)]_vars

\* A judge that has gone through every item: its last step found the pool
\* empty and left it without next.
C27_Witness ==
    \E j \in Judges :
        /\ served(j) /\ next[j] = None /\ prev[j] # None
        /\ \A a \in Items : ignore[j][a] > 0
        /\ resp = "ok"

\* The expected information gain of showing judge j item a against ref.
gain_of(j, ref, a) ==
    expected_information_gain(alpha[j], beta[j], mu[ref], sigma_sq[ref],
                              mu[a], sigma_sq[a])

\* C28: for every judge, every reference item, the judge's pool when its
\* next is chosen and every order the shuffle can give it: when random() is
\* below EPSILON choose_next returns the first applicant of the shuffled
\* pool, and otherwise an applicant of the pool whose expected information
\* gain against the reference is at least that of every applicant of the
\* pool.
C28_ChooseNext ==
    \A j \in Judges, ref \in Items :
        \A xs \in shuffle(preferred_applicants(ignore_at_choice(j))) :
            Len(xs) > 0 =>
                LET first == choose_next(xs, TRUE, alpha[j], beta[j], ref, mu, sigma_sq)
                    best == choose_next(xs, FALSE, alpha[j], beta[j], ref, mu, sigma_sq)
                IN  /\ first = xs[1]
                    /\ best \in preferred_applicants(ignore_at_choice(j))
                    /\ \A a \in preferred_applicants(ignore_at_choice(j)) :
                           gain_of(j, ref, best) >= gain_of(j, ref, a)

\* A judge on its first item whose pool holds two items of different gain
\* against it: the choice depends on random().
C28_Witness ==
    \E j \in Judges, a \in Items, b \in Items :
        /\ served(j) /\ BEGIN(j)
        /\ a \in preferred_applicants(ignore_at_choice(j))
        /\ b \in preferred_applicants(ignore_at_choice(j))
        /\ gain_of(j, next[j], a) < gain_of(j, next[j], b)

(***************************************************************************)
(* Properties of updated and of the Decision table.                        *)
(***************************************************************************)
\* C29: after every step that changes judge j's prev or next, also one that
\* sets next to none, j.updated is the time of that step; and every judge
\* with a next has updated set.
C29_UpdatedIsLastChange ==
    /\ [][\A j \in Judges :
             (prev'[j] # prev[j] \/ next'[j] # next[j]) => updated'[j] = now]_vars
    /\ [](\A j \in Judges : next[j] # None => updated[j] # None)

\* C29, amended: after every step that gives judge j a next, j.updated is
\* the time of that step; no other step changes j.updated, so one that sets
\* next to none, or leaves it none, leaves updated as it was even when it
\* changes prev; and every judge with a next has updated set, not later
\* than now.
C29_UpdatedIsLastAssignment ==
    /\ [][\A j \in Judges :
             /\ (next'[j] # next[j] /\ next'[j] # None) => updated'[j] = now
             /\ updated'[j] # updated[j] =>
                    next'[j] # next[j] /\ next'[j] # None
             /\ next'[j] = None => updated'[j] = updated[j]]_vars
    /\ [](\A j \in Judges :
             next[j] # None => updated[j] # None /\ updated[j] <= now)

\* A judge that was given an item, has acted on it and was left without
\* next, with updated still the minute of the assignment, now past.
C29_Witness ==
    \E j \in Judges :
        /\ next[j] = None /\ ids(ignore[j]) # {}
        /\ updated[j] # None /\ updated[j] < now

\* The step commits the transaction of a Previous or Current vote whose
\* ids are the judge's prev and next as the transaction finds them, both
\* items active.
accepted_vote_commits ==
    \E s \in Slots :
        LET r == inflight[s]
        IN  /\ r.st = "running" /\ ~r.stale
            /\ inflight'[s].st = "done" /\ inflight'[s].resp = "ok"
            /\ r.op = "vote" /\ r.action \in {"Previous", "Current"}
            /\ prev[r.judge] = r.prev_id /\ next[r.judge] = r.next_id
            /\ active[r.prev_id] /\ active[r.next_id]

\* C30: under the judges' requests, in any interleaving and with retries,
\* no step removes or changes a Decision: the log before the step is a
\* prefix of the log after it; the log grows by one record in a step that
\* commits an accepted Previous or Current vote on two active items, and
\* does not grow in any other step (index, begin, Skip, a stale vote, a
\* retry, a request that fails).
C30_DecisionsAppendOnly ==
    [][/\ Len(decisions') >= Len(decisions)
       /\ SubSeq(decisions', 1, Len(decisions)) = decisions
       /\ IF accepted_vote_commits
          THEN Len(decisions') = Len(decisions) + 1
          ELSE decisions' = decisions]_vars

\* A Decision has been recorded while a Skip took effect and another
\* request was answered without effect: one record in the log.
C30_Witness ==
    /\ Len(decisions) = 1
    /\ \E s \in Slots, t \in Slots :
           /\ s # t /\ answered(s) /\ answered(t)
           /\ inflight[s].op = "vote" /\ inflight[s].effect
           /\ inflight[s].action \in {"Previous", "Current"}
           /\ inflight[t].op = "vote" /\ ~inflight[t].effect

(***************************************************************************)
(* Properties of ignore and viewed.                                        *)
(***************************************************************************)
\* C31: in every reachable state a judge's prev is in its ignore rows and
\* its next is not, so prev and next are different items whenever both are
\* set; and every Decision has a winner different from its loser.
C31_PrevAndNextDiffer ==
    /\ \A j \in Judges :
           /\ prev[j] # None => ignore[j][prev[j]] > 0
           /\ next[j] # None => ignore[j][next[j]] = 0
           /\ STEADY(j) => prev[j] # next[j]
    /\ \A k \in 1..Len(decisions) : decisions[k].winner # decisions[k].loser

\* A judge on a pair, after a Decision it gave on another pair that had its
\* prev in it.
C31_Witness ==
    \E j \in Judges :
        /\ STEADY(j) /\ Len(decisions) >= 1
        /\ decisions[Len(decisions)].annotator = j
        /\ prev[j] \in {decisions[Len(decisions)].winner, decisions[Len(decisions)].loser}
        /\ next[j] \notin {decisions[Len(decisions)].winner, decisions[Len(decisions)].loser}

\* C32: in every reachable state and for every judge j, every item j has
\* viewed is in j's ignore rows, and j's prev, when set, has been viewed by
\* j.  (Not the other way round: see the witness.)
C32_ViewedIsIgnored ==
    \A j \in Judges :
        /\ \A a \in Items : viewed[a][j] > 0 => ignore[j][a] > 0
        /\ prev[j] # None => viewed[prev[j]][j] > 0

\* A judge with an item it has viewed and ignored, which is its prev, and an
\* item it has skipped: ignored, not viewed.
C32_Witness ==
    \E j \in Judges, a \in Items, b \in Items :
        /\ prev[j] = a /\ viewed[a][j] > 0 /\ ignore[j][a] > 0
        /\ ignore[j][b] > 0 /\ viewed[b][j] = 0

\* C33: after any sequence or interleaving of requests a judge has at most
\* one row in an item's viewed relation, so the count compared with
\* MIN_VIEWS, len(a.viewed), is the number of distinct judges that have
\* viewed the item.
C33_ViewedIsASet ==
    /\ \A a \in Items, j \in Judges : viewed[a][j] <= 1
    /\ \A a \in Items : len_viewed(a) = Cardinality({j \in Judges : viewed[a][j] > 0})

\* An item viewed by every judge: as many rows as judges.
C33_Witness ==
    \E a \in Items :
        /\ \A j \in Judges : viewed[a][j] = 1
        /\ len_viewed(a) = NumJudges

(***************************************************************************)
(* Properties of the prioritized flag and of the size of ignore.           *)
(***************************************************************************)
\* C34: a step that gives a judge an item as next (index, Continue, Skip on
\* a pair, a vote) leaves that item not prioritized; a step that sets a
\* judge's next to none changes no item's flag; and outside the admin's
\* requests a flag changes only by the assignment of its item.
C34_AssignmentCancelsPriority ==
    [][\A j \in Judges :
          /\ (next'[j] # next[j] /\ next'[j] # None) => ~prioritized'[next'[j]]
          /\ (next'[j] # next[j] /\ next'[j] = None) => prioritized' = prioritized
          /\ \A a \in Items :
                 (prioritized'[a] # prioritized[a] /\ adminOps' = adminOps) =>
                     /\ ~prioritized'[a]
                     /\ \E k \in Judges : next'[k] = a /\ next[k] # a]_vars

\* A judge waiting for an item while an item is prioritized: index gives it
\* that item and the flag is cancelled.
C34_Witness ==
    \E j \in Judges, a \in Items :
        /\ served(j) /\ next[j] = None /\ prioritized[a]
        /\ ENABLED (Index(j, NoSession) /\ next'[j] = a /\ ~prioritized'[a])

\* The number of items in judge j's ignore rows.
ignored_count(j) == Cardinality(ids(ignore[j]))

\* A form of judge j that is accepted: Continue or Skip on begin for its
\* next, or Previous, Current or Skip on its pair.
accepted_action(j) ==
    /\ served(j) /\ next[j] # None
    /\ \/ \E action \in BeginActions : Begin(j, next[j], action)
       \/ prev[j] # None /\ \E action \in VoteActions : Vote(j, prev[j], next[j], action)

\* C35: every accepted action of judge j adds an item to j's ignore rows,
\* and no step removes or repeats a row: a step changes j.ignore only by
\* adding one row for an item that had none.  So j has had as many accepted
\* actions as it ignores items, at most NumItems; once it ignores them all
\* its next is none, and stays none.
C35_IgnoreOnlyGrows ==
    /\ [][\A j \in Judges :
             /\ accepted_action(j) => ignored_count(j)' = ignored_count(j) + 1
             /\ ignore'[j] # ignore[j] =>
                    \E a \in Items :
                        /\ ignore[j][a] = 0
                        /\ ignore'[j] = [ignore[j] EXCEPT ![a] = 1]]_vars
    /\ [](\A j \in Judges :
             /\ SumOver(ignore[j], Items) = ignored_count(j)
             /\ ignored_count(j) <= NumItems
             /\ next[j] # None => ignored_count(j) < NumItems
             /\ ignored_count(j) = NumItems =>
                    next[j] = None /\ preferred_applicants(ignore[j]) = {})

\* A judge that has acted on every item, in NumItems accepted actions, the
\* last of them a Skip: it waits.
C35_Witness ==
    \E j \in Judges, a \in Items :
        /\ ignored_count(j) = NumItems /\ acts = NumItems
        /\ next[j] = None /\ viewed[a][j] = 0

(***************************************************************************)
(* Properties of disabled judges, of closed judging and of the admin.      *)
(***************************************************************************)
\* C36: while judge j is disabled, no step other than an admin's request
\* makes j active again, changes j's prev, next or ignore rows or j's alpha
\* and beta, or records a Decision of j.
C36_DisabledJudgeIsInert ==
    [][\A j \in Judges :
          (~ann_active[j] /\ adminOps' = adminOps) =>
              /\ ~ann_active'[j]
              /\ next'[j] = next[j] /\ prev'[j] = prev[j] /\ ignore'[j] = ignore[j]
              /\ alpha'[j] = alpha[j] /\ beta'[j] = beta[j]
              /\ decisions_of(j)' = decisions_of(j)]_vars

admitted(request) ==
    /\ request.cookie
    /\ request.verification = "valid"
    /\ request.privilege >= MIN_ADMIN_ROLE

C39_AdminHandlerNeedsVerifiedCookie ==
    [][\A request \in AdminRequests, verify_exp \in BOOLEAN :
          (~admitted(request) /\ hackpsu_admin_required(request, verify_exp)) =>
              /\ resp' \in {"login", "forbidden"}
              /\ adminOps' = adminOps
              /\ db' = db]_vars

=============================================================================
